---- MODULE Spec2Model ----
(***************************************************************************)
(* nx_misc.StatusDisplay: a single-line status display on sys.stderr.      *)
(*                                                                         *)
(* The state is one StatusDisplay instance (its attribute dictionary),     *)
(* the text printed to sys.stderr so far, whether sys.stderr is a          *)
(* terminal, and the position of the calling code (inside or outside a     *)
(* with-block, which exception it is looking at).                          *)
(*                                                                         *)
(* Text is a sequence of one-character strings; an escape sequence and the *)
(* elapsed-time field are one element each.  NOW() is the external clock:  *)
(* the elapsed field str(elapsed)[:-4] is kept as the opaque element       *)
(* ELAPSED, only the attribute read self._start that precedes it matters.  *)
(***************************************************************************)
EXTENDS Integers, Sequences, FiniteSets, TLC

VARIABLES
    isatty,     \* sys.stderr.isatty()
    args,       \* the arguments __init__ was called with
    self,       \* the instance's attributes: a record, absent attributes absent
    stderr,     \* the sequence of print() outputs written to sys.stderr
    scope,      \* the with-statement: where the caller is, what the body raised,
                \* what the caller of the with-statement observed
    exc,        \* the exception raised by the last call ("None" if it returned)
    collected,  \* __del__ has run
    calls,      \* the calls made on the instance so far, in order
    iterable,   \* force_run: its argument; iterable[i] says whether function i raises
    frames,     \* force_run: the calls in progress, innermost last
    ran,        \* force_run: the functions of iterable called so far, in order
    outcome,    \* force_run: where the call is and the exception in flight
    flat        \* flatten_dict: its arguments and its result

\* the state of the utility functions, which StatusDisplay never touches
utilVars == <<iterable, frames, ran, outcome, flat>>

vars == <<isatty, args, self, stderr, scope, exc, collected, calls,
          iterable, frames, ran, outcome, flat>>

(* Bounds of the model *)

\* calls made on one instance under Spec
MaxCalls == 6
\* largest count argument under Spec
MaxCount == 3
\* largest count argument under SpecBar
MaxTotal == 80
\* calls made on one instance under SpecRedirect
MaxRedirectCalls == 5
\* longest list given to force_run
MaxFuncs == 5
\* longest fields argument of flatten_dict
MaxFields == 2
\* tick calls made beyond count under SpecBar
MaxOverrun == 5
\* longest message under SpecBar
MaxMsgLen == 40

(* Text *)

HIDE_CURSOR == "ESC[?25l"
SHOW_CURSOR == "ESC[?25h"
CLEAR_EOL == "ESC[K"
CR == "\r"
NL == "\n"
ELAPSED == "H:MM:SS.cc"

\* count=None, the default of __init__; counts are naturals otherwise
None == -1

Whitespace == {" ", "\t"}

Digits == <<"0", "1", "2", "3", "4", "5", "6", "7", "8", "9">>

\* str(n) for an int n >= 0
RECURSIVE Str(_)
Str(n) ==
    IF n < 10 THEN <<Digits[n + 1]>>
    ELSE Str(n \div 10) \o <<Digits[(n % 10) + 1]>>

RECURSIVE LStrip(_)
LStrip(s) ==
    IF s # <<>> /\ Head(s) \in Whitespace THEN LStrip(Tail(s)) ELSE s

RECURSIVE RStrip(_)
RStrip(s) ==
    IF s # <<>> /\ s[Len(s)] \in Whitespace
    THEN RStrip(SubSeq(s, 1, Len(s) - 1))
    ELSE s

\* str.strip()
Strip(s) == RStrip(LStrip(s))

\* s * n
RECURSIVE Repeat(_, _)
Repeat(s, n) == IF n <= 0 THEN <<>> ELSE s \o Repeat(s, n - 1)

Max(a, b) == IF a >= b THEN a ELSE b

\* bool(count): None and 0 are false
Truthy(count) == count # None /\ count # 0

\* print(line, end=end, file=fobj, flush=True)
FilePrint(out, line, end) == Append(out, line \o end)

(* StatusDisplay *)

_phases == <<" ", "u258f", "u258e", "u258d", "u258c", "u258b", "u258a",
             "u2589", "u2588">>

HasAttr(obj, name) == name \in DOMAIN obj

\* DisplayMsg with the length test off by one
DisplayMsgOffByOne(orig_msg) ==
    IF Len(orig_msg) > 40
    THEN SubSeq(orig_msg, 1, 36) \o <<".", ".", ".">>
    ELSE orig_msg

\* self.msg as __init__ computes it from self.orig_msg
DisplayMsg(orig_msg) ==
    IF Len(orig_msg) > 39
    THEN SubSeq(orig_msg, 1, 36) \o <<".", ".", ".">>
    ELSE orig_msg

\* self._width as __init__ computes it from self.msg
Width(msg) == 79 - (Len(msg) + 38)

\* the attributes __init__ leaves on the instance
NewSelf(tty, msg, count) ==
    IF tty
    THEN [orig_msg |-> Strip(msg), count |-> count,
          msg |-> DisplayMsg(Strip(msg)),
          _width |-> Width(DisplayMsg(Strip(msg))),
          _tick |-> 0, _start |-> 0, _closed |-> FALSE]
    ELSE [_closed |-> FALSE]

\* what __init__ prints
InitOutput(tty, msg) ==
    IF tty
    THEN FilePrint(<<>>, <<HIDE_CURSOR, "[", "-", ":", "-", "-", ":", "-", "-", ".",
                       "-", "-", "]", " ">> \o Strip(msg), <<>>)
    ELSE <<>>

\* NextTick without the cap
NextTickUncapped(obj) == obj._tick + 1

\* tick = self._tick + 1, capped at count
NextTick(obj) ==
    IF obj._tick + 1 > obj.count THEN obj.count ELSE obj._tick + 1

\* filled_length = int(wpt / count); the operands are non-negative and far
\* below 2^53, where the float quotient truncates to the integer quotient
FilledLength(width, tick, count) == (width * tick) \div count

\* Phase with eight steps to the cell instead of len(phases)
PhaseEighths(width, tick, count) ==
    (8 * (width * tick)) \div count - 8 * FilledLength(width, tick, count)

\* phase = int(phases_length * wpt / count) - phases_length * filled_length
Phase(width, tick, count) ==
    (Len(_phases) * (width * tick)) \div count
        - Len(_phases) * FilledLength(width, tick, count)

\* current = phases[phase] if phase > 0 else ''
Current(phase) == IF phase > 0 THEN <<_phases[phase + 1]>> ELSE <<>>

\* Bar with the padding computed without len(current)
BarPadsPastPartial(width, tick, count) ==
    LET filled_length == FilledLength(width, tick, count)
        current == Current(Phase(width, tick, count))
        empty == Repeat(<<" ">>, Max(0, width - filled_length))
    IN  Repeat(<<_phases[Len(_phases)]>>, filled_length) \o current \o empty

\* phases[-1] * filled_length + current + empty
Bar(width, tick, count) ==
    LET filled_length == FilledLength(width, tick, count)
        current == Current(Phase(width, tick, count))
        empty == Repeat(<<" ">>, Max(0, width - filled_length - Len(current)))
    IN  Repeat(<<_phases[Len(_phases)]>>, filled_length) \o current \o empty

\* the counter tick() appends after the bar
TickCounter(tick, count) == <<" ", "[">> \o Str(tick) \o <<"/">> \o Str(count) \o <<"]">>

\* TickLine with the short message in the branch without a count
TickLineShortMsg(obj) ==
    <<HIDE_CURSOR, CR, CLEAR_EOL, "[", ELAPSED, "]", " ">> \o
    (IF Truthy(obj.count)
     THEN obj.msg \o <<" ", "|">> \o Bar(obj._width, NextTick(obj), obj.count)
          \o <<"|">> \o TickCounter(NextTick(obj), obj.count)
     ELSE obj.msg)

\* the line tick() builds when sys.stderr is a terminal
TickLine(obj) ==
    <<HIDE_CURSOR, CR, CLEAR_EOL, "[", ELAPSED, "]", " ">> \o
    (IF Truthy(obj.count)
     THEN obj.msg \o <<" ", "|">> \o Bar(obj._width, NextTick(obj), obj.count)
          \o <<"|">> \o TickCounter(NextTick(obj), obj.count)
     ELSE obj.orig_msg)

\* NOW() - self._start on an instance __init__ gave no _start
TickRaises(obj) == ~HasAttr(obj, "_start")

\* the instance after tick() returned
TickSelf(obj, tty) ==
    IF tty /\ Truthy(obj.count) THEN [obj EXCEPT !._tick = NextTick(obj)] ELSE obj

\* TickOutput without the isatty() test
TickOutputNoTty(obj, tty, out) == FilePrint(out, TickLine(obj), <<>>)

\* sys.stderr after tick() returned
TickOutput(obj, tty, out) ==
    IF tty THEN FilePrint(out, TickLine(obj), <<>>) ELSE out

\* the counter close() appends to the message
CloseCounter(obj) ==
    IF Truthy(obj.count)
    THEN <<" ", "[">> \o Str(obj._tick)
         \o (IF obj._tick # obj.count THEN <<"/">> \o Str(obj.count) ELSE <<>>)
         \o <<"]">>
    ELSE <<>>

\* the line close() builds when sys.stderr is a terminal
CloseLine(obj) ==
    <<CR, CLEAR_EOL, "[", ELAPSED, "]", " ">> \o obj.orig_msg
        \o CloseCounter(obj) \o <<SHOW_CURSOR>>

\* CloseActs without the test of self._closed
CloseActsUnguarded(obj) == TRUE

\* close() gets past its guard
CloseActs(obj) == ~obj._closed

\* NOW() - self._start, after self._closed = True, on an instance without _start
CloseRaises(obj) == CloseActs(obj) /\ ~HasAttr(obj, "_start")

\* the instance after close() returned or raised
CloseSelf(obj) ==
    IF CloseActs(obj) THEN [obj EXCEPT !._closed = TRUE] ELSE obj

\* sys.stderr after close() returned or raised
CloseOutput(obj, tty, out) ==
    IF CloseActs(obj) /\ ~CloseRaises(obj) /\ tty
    THEN FilePrint(out, CloseLine(obj), <<NL>>)
    ELSE out

\* DelOutput without the test of self._closed
DelOutputIgnoresClosed(obj, tty, out) ==
    IF tty THEN FilePrint(out, <<SHOW_CURSOR>>, <<NL>>) ELSE out

\* DelOutput without the isatty() test
DelOutputNoTty(obj, tty, out) ==
    IF ~obj._closed THEN FilePrint(out, <<SHOW_CURSOR>>, <<NL>>) ELSE out

\* sys.stderr after __del__
DelOutput(obj, tty, out) ==
    IF ~obj._closed /\ tty THEN FilePrint(out, <<SHOW_CURSOR>>, <<NL>>) ELSE out

(* The callers' inputs *)

Letters == <<"a", "b", "c", "d", "e", " ", "f", "g", "h", "i">>

\* a message of n characters, no two neighbours alike
Text(n) == [i \in 1..n |-> Letters[((i - 1) % Len(Letters)) + 1]]

\* Text(n) between l leading and r trailing whitespace characters
Padded(l, n, r) == Repeat(<<" ">>, l) \o Text(n) \o Repeat(<<"\t">>, r)

Messages ==
    {Padded(1, 0, 1), Padded(0, 2, 0), Padded(1, 39, 2), Padded(0, 40, 0),
     Padded(2, 50, 1)}

Counts == {None} \cup (0..MaxCount)

BarMessages == {Text(n) : n \in 0..MaxMsgLen}

BarCounts == 1..MaxTotal

(* force_run *)

\* no exception: the call returned
NoException == 0

\* the TypeError functools.reduce raises on an empty iterable; the exception
\* of function i is numbered i
ReduceTypeError == -1

\* an element of iterable
Func(i) == [kind |-> "func", id |-> i]

\* gen(func1, func2): the closure _ that runs func1 and, in finally, func2
gen(func1, func2) == [kind |-> "gen", func1 |-> func1, func2 |-> func2]

\* functools.reduce(gen, iterable) from an accumulated value on
RECURSIVE ReduceGen(_, _, _)
ReduceGen(acc, fs, i) ==
    IF i > Len(fs) THEN acc ELSE ReduceGen(gen(acc, Func(i)), fs, i + 1)

\* functools.reduce(gen, iterable) on a non-empty iterable
Reduce(fs) == ReduceGen(Func(1), fs, 2)

\* a call about to start
Frame(callee) == [callee |-> callee, at |-> "enter", pending |-> NoException]

\* AfterTry with the call of func2 in an else clause instead of finally
AfterTryElse(stack, completion) ==
    LET top == stack[Len(stack)]
        rest == SubSeq(stack, 1, Len(stack) - 1)
    IN  IF completion # NoException
        THEN [frames |-> rest, outcome |-> [pc |-> "return", exc |-> completion]]
        ELSE [frames |-> Append(rest, [top EXCEPT !.at = "finally",
                                                   !.pending = completion])
                            \o <<Frame(top.callee.func2)>>,
              outcome |-> [pc |-> "run", exc |-> NoException]]

\* func1() has ended inside the try of the closure on top of the stack,
\* returning or raising completion: the finally clause calls func2
AfterTry(stack, completion) ==
    LET top == stack[Len(stack)]
        rest == SubSeq(stack, 1, Len(stack) - 1)
    IN  [frames |-> Append(rest, [top EXCEPT !.at = "finally",
                                              !.pending = completion])
                        \o <<Frame(top.callee.func2)>>,
         outcome |-> [pc |-> "run", exc |-> NoException]]

\* func2() has ended inside the finally clause: its exception replaces the
\* pending one, otherwise the pending one, if any, is raised again
AfterFinally(pending, completion) ==
    IF completion # NoException THEN completion ELSE pending

(* flatten_dict *)

Keys == {"a", "b", "c"}

Values == {1, 2}

Range(f) == {f[i] : i \in DOMAIN f}

\* the argument field_set: <<>> for None, <<S>> for the set S
FieldSetOr(field_set, fields) ==
    IF field_set = <<>> \/ field_set[1] = {} THEN Range(fields) ELSE field_set[1]

\* the first field that is no key of dct
FirstMissing(dct, fields) ==
    fields[CHOOSE i \in 1..Len(fields) :
              /\ fields[i] \notin DOMAIN dct
              /\ \A j \in 1..(i - 1) : fields[j] \in DOMAIN dct]

Returned(list) == [kind |-> "list", list |-> list, extras |-> {}, key |-> ""]

\* flatten_dict with the test of rest_val by truth value
flatten_dict_truthy(dct, fields, rest_val, extras_action, field_set) ==
    LET extras == DOMAIN dct \ FieldSetOr(field_set, fields)
    IN  IF extras_action = "raise" /\ extras # {}
        THEN [kind |-> "ValueError", list |-> <<>>, extras |-> extras, key |-> ""]
        ELSE IF rest_val # None /\ rest_val # 0
        THEN Returned([i \in 1..Len(fields) |->
                          IF fields[i] \in DOMAIN dct THEN dct[fields[i]]
                          ELSE rest_val])
        ELSE IF \E i \in 1..Len(fields) : fields[i] \notin DOMAIN dct
        THEN [kind |-> "KeyError", list |-> <<>>, extras |-> {},
              key |-> FirstMissing(dct, fields)]
        ELSE Returned([i \in 1..Len(fields) |-> dct[fields[i]]])

\* flatten_dict(dct, fields, rest_val=..., extras_action=..., field_set=...)
flatten_dict(dct, fields, rest_val, extras_action, field_set) ==
    LET extras == DOMAIN dct \ FieldSetOr(field_set, fields)
    IN  IF extras_action = "raise" /\ extras # {}
        THEN [kind |-> "ValueError", list |-> <<>>, extras |-> extras, key |-> ""]
        ELSE IF rest_val # None
        THEN Returned([i \in 1..Len(fields) |->
                          IF fields[i] \in DOMAIN dct THEN dct[fields[i]]
                          ELSE rest_val])
        ELSE IF \E i \in 1..Len(fields) : fields[i] \notin DOMAIN dct
        THEN [kind |-> "KeyError", list |-> <<>>, extras |-> {},
              key |-> FirstMissing(dct, fields)]
        ELSE Returned([i \in 1..Len(fields) |-> dct[fields[i]]])

(* The state machine *)

\* no call of force_run or flatten_dict is in progress
UtilIdle ==
    /\ iterable = <<>>
    /\ frames = <<>>
    /\ ran = <<>>
    /\ outcome = [pc |-> "idle", exc |-> NoException]
    /\ flat = [dct |-> <<>>, fields |-> <<>>, rest_val |-> None,
               extras_action |-> "raise", field_set |-> <<>>,
               result |-> [kind |-> "pending", list |-> <<>>, extras |-> {},
                           key |-> ""]]


Construct(tty, msg, count) ==
    /\ isatty = tty
    /\ args = [msg |-> msg, count |-> count]
    /\ self = NewSelf(tty, msg, count)
    /\ stderr = InitOutput(tty, msg)
    /\ scope = [at |-> "none", body |-> "None", caller |-> "None"]
    /\ exc = "None"
    /\ collected = FALSE
    /\ calls = <<>>

Init ==
    /\ UtilIdle
    /\ \E tty \in BOOLEAN, msg \in Messages, count \in Counts :
            Construct(tty, msg, count)

\* display.tick()
Tick ==
    /\ ~collected
    /\ calls' = Append(calls, "tick")
    /\ IF TickRaises(self)
       THEN /\ exc' = "AttributeError"
            /\ UNCHANGED <<self, stderr>>
       ELSE /\ exc' = "None"
            /\ self' = TickSelf(self, isatty)
            /\ stderr' = TickOutput(self, isatty, stderr)
    /\ UNCHANGED <<isatty, args, scope, collected>>

\* the body of close(), entered from close(), done() and __exit__
CloseBody ==
    /\ self' = CloseSelf(self)
    /\ stderr' = CloseOutput(self, isatty, stderr)

\* display.close()
Close ==
    /\ ~collected
    /\ calls' = Append(calls, "close")
    /\ CloseBody
    /\ exc' = IF CloseRaises(self) THEN "AttributeError" ELSE "None"
    /\ UNCHANGED <<isatty, args, scope, collected>>

\* display.done()
Done ==
    /\ ~collected
    /\ calls' = Append(calls, "done")
    /\ CloseBody
    /\ exc' = IF CloseRaises(self) THEN "AttributeError" ELSE "None"
    /\ UNCHANGED <<isatty, args, scope, collected>>

\* with display: ... reaches its body; __enter__ returns self
Enter ==
    /\ ~collected
    /\ scope.at = "none"
    /\ calls' = Append(calls, "enter")
    /\ scope' = [scope EXCEPT !.at = "body"]
    /\ exc' = "None"
    /\ UNCHANGED <<isatty, args, self, stderr, collected>>

\* the body of the with-statement raises an exception of its own
BodyRaise ==
    /\ scope.at = "body"
    /\ calls' = Append(calls, "raise")
    /\ exc' = "BodyError"
    /\ UNCHANGED <<isatty, args, self, stderr, scope, collected>>

\* Exit with an __exit__ that does not call close()
ExitWithoutClose ==
    /\ scope.at = "body"
    /\ calls' = Append(calls, "exit")
    /\ exc' = exc
    /\ scope' = [at |-> "exited", body |-> exc, caller |-> exc]
    /\ UNCHANGED <<isatty, args, self, stderr, collected>>

\* the with-statement ends: __exit__ runs with the exception the body is
\* leaving with (exc; "None" on normal completion) and returns None, so that
\* exception goes on to the caller unless close() raised another
Exit ==
    /\ scope.at = "body"
    /\ calls' = Append(calls, "exit")
    /\ CloseBody
    /\ exc' = IF CloseRaises(self) THEN "AttributeError" ELSE exc
    /\ scope' = [at |-> "exited", body |-> exc, caller |-> exc']
    /\ UNCHANGED <<isatty, args, collected>>

\* the last reference is dropped: __del__
Del ==
    /\ ~collected
    /\ scope.at # "body"
    /\ calls' = Append(calls, "del")
    /\ collected' = TRUE
    /\ stderr' = DelOutput(self, isatty, stderr)
    /\ exc' = "None"
    /\ UNCHANGED <<isatty, args, self, scope>>

Budget == Len(calls) < MaxCalls

Next ==
    \/ Budget /\ Tick /\ UNCHANGED utilVars
    \/ Budget /\ Close /\ UNCHANGED utilVars
    \/ Budget /\ Done /\ UNCHANGED utilVars
    \/ Budget /\ Enter /\ UNCHANGED utilVars
    \/ Budget /\ BodyRaise /\ UNCHANGED utilVars
    \/ Budget /\ Exit /\ UNCHANGED utilVars
    \/ Budget /\ Del /\ UNCHANGED utilVars

Spec == Init /\ [][Next]_vars

\* the number of tick() calls made so far
NumTicks == Cardinality({i \in 1..Len(calls) : calls[i] = "tick"})

InitBar ==
    /\ UtilIdle
    /\ \E msg \in BarMessages, count \in BarCounts :
            Construct(TRUE, msg, count)

BarBudget == NumTicks < args.count + MaxOverrun

NextBar == BarBudget /\ Tick /\ UNCHANGED utilVars

SpecBar == InitBar /\ [][NextBar]_vars

\* sys.stderr is replaced, or its terminal goes away or comes back, between
\* two calls: every method reads sys.stderr and asks isatty() anew
Redirect ==
    /\ ~collected
    /\ isatty' = ~isatty
    /\ UNCHANGED <<args, self, stderr, scope, exc, collected, calls>>

RedirectBudget == Len(calls) < MaxRedirectCalls

NextRedirect ==
    \/ RedirectBudget /\ Tick /\ UNCHANGED utilVars
    \/ RedirectBudget /\ Close /\ UNCHANGED utilVars
    \/ RedirectBudget /\ Done /\ UNCHANGED utilVars
    \/ RedirectBudget /\ Enter /\ UNCHANGED utilVars
    \/ RedirectBudget /\ BodyRaise /\ UNCHANGED utilVars
    \/ RedirectBudget /\ Exit /\ UNCHANGED utilVars
    \/ RedirectBudget /\ Del /\ UNCHANGED utilVars
    \/ RedirectBudget /\ Redirect /\ UNCHANGED utilVars

SpecRedirect == Init /\ [][NextRedirect]_vars

\* the state of the display, which the utility functions never touch
displayVars == <<isatty, args, self, stderr, scope, exc, collected, calls>>

InitForceRun ==
    /\ Construct(FALSE, <<>>, None)
    /\ iterable \in UNION {[1..n -> BOOLEAN] : n \in 0..MaxFuncs}
    /\ frames = <<>>
    /\ ran = <<>>
    /\ outcome = [pc |-> "idle", exc |-> NoException]
    /\ flat = [dct |-> <<>>, fields |-> <<>>, rest_val |-> None,
               extras_action |-> "raise", field_set |-> <<>>,
               result |-> [kind |-> "pending", list |-> <<>>, extras |-> {},
                           key |-> ""]]

\* force_run(iterable): functools.reduce(gen, iterable) is built and called
ForceRun ==
    /\ outcome.pc = "idle"
    /\ IF iterable = <<>>
       THEN /\ outcome' = [pc |-> "done", exc |-> ReduceTypeError]
            /\ UNCHANGED frames
       ELSE /\ outcome' = [pc |-> "run", exc |-> NoException]
            /\ frames' = <<Frame(Reduce(iterable))>>
    /\ UNCHANGED <<iterable, ran, flat>>

\* a function of iterable is called: it runs, then returns or raises
FuncCall ==
    /\ outcome.pc = "run"
    /\ frames # <<>>
    /\ LET top == frames[Len(frames)]
       IN  /\ top.at = "enter"
           /\ top.callee.kind = "func"
           /\ ran' = Append(ran, top.callee.id)
           /\ frames' = SubSeq(frames, 1, Len(frames) - 1)
           /\ outcome' = [pc |-> "return",
                          exc |-> IF iterable[top.callee.id]
                                  THEN top.callee.id ELSE NoException]
    /\ UNCHANGED <<iterable, flat>>

\* a closure _ is called: it enters its try and calls func1
GenCall ==
    /\ outcome.pc = "run"
    /\ frames # <<>>
    /\ LET top == frames[Len(frames)]
       IN  /\ top.at = "enter"
           /\ top.callee.kind = "gen"
           /\ frames' = Append(SubSeq(frames, 1, Len(frames) - 1),
                               [top EXCEPT !.at = "try"])
                            \o <<Frame(top.callee.func1)>>
    /\ UNCHANGED <<iterable, ran, outcome, flat>>

\* func1() ends inside the try of the closure on top of the stack
GenTryEnds ==
    /\ outcome.pc = "return"
    /\ frames # <<>>
    /\ frames[Len(frames)].at = "try"
    /\ frames' = AfterTry(frames, outcome.exc).frames
    /\ outcome' = AfterTry(frames, outcome.exc).outcome
    /\ UNCHANGED <<iterable, ran, flat>>

\* func2() ends inside the finally of the closure on top of the stack, and
\* the closure ends with it
GenFinallyEnds ==
    /\ outcome.pc = "return"
    /\ frames # <<>>
    /\ frames[Len(frames)].at = "finally"
    /\ frames' = SubSeq(frames, 1, Len(frames) - 1)
    /\ outcome' = [pc |-> "return",
                   exc |-> AfterFinally(frames[Len(frames)].pending, outcome.exc)]
    /\ UNCHANGED <<iterable, ran, flat>>

\* the outermost call ends: force_run returns, or the exception in flight
\* reaches its caller
ForceRunEnds ==
    /\ outcome.pc = "return"
    /\ frames = <<>>
    /\ outcome' = [outcome EXCEPT !.pc = "done"]
    /\ UNCHANGED <<iterable, frames, ran, flat>>

NextForceRun ==
    \/ ForceRun /\ UNCHANGED displayVars
    \/ FuncCall /\ UNCHANGED displayVars
    \/ GenCall /\ UNCHANGED displayVars
    \/ GenTryEnds /\ UNCHANGED displayVars
    \/ GenFinallyEnds /\ UNCHANGED displayVars
    \/ ForceRunEnds /\ UNCHANGED displayVars

SpecForceRun == InitForceRun /\ [][NextForceRun]_vars

RestVals == {None, 0, 5}

InitFlatten ==
    /\ Construct(FALSE, <<>>, None)
    /\ iterable = <<>>
    /\ frames = <<>>
    /\ ran = <<>>
    /\ outcome = [pc |-> "idle", exc |-> NoException]
    /\ \E dct \in UNION {[D -> Values] : D \in SUBSET Keys},
          fields \in UNION {[1..n -> Keys] : n \in 0..MaxFields},
          rest_val \in RestVals,
          extras_action \in {"raise", "ignore"},
          field_set \in {<<>>} \cup {<<S>> : S \in SUBSET Keys} :
          flat = [dct |-> dct, fields |-> fields, rest_val |-> rest_val,
                  extras_action |-> extras_action, field_set |-> field_set,
                  result |-> [kind |-> "pending", list |-> <<>>, extras |-> {},
                              key |-> ""]]

\* flatten_dict is called with the arguments drawn
FlattenDictCall ==
    /\ flat.result.kind = "pending"
    /\ flat' = [flat EXCEPT !.result =
                   flatten_dict(flat.dct, flat.fields, flat.rest_val,
                                flat.extras_action, flat.field_set)]
    /\ UNCHANGED <<iterable, frames, ran, outcome>>

NextFlatten == FlattenDictCall /\ UNCHANGED displayVars

SpecFlatten == InitFlatten /\ [][NextFlatten]_vars

(* Observations the claims are stated with *)

\* the instance was constructed while sys.stderr was a terminal
Interactive == HasAttr(self, "_start")

\* a determinate instance: a count was given and is not 0
Determinate == Interactive /\ Truthy(self.count)

RECURSIVE Flat(_)
Flat(out) == IF out = <<>> THEN <<>> ELSE Head(out) \o Flat(Tail(out))

IsCursorEscape(c) == c \in {HIDE_CURSOR, SHOW_CURSOR}

\* the cursor escapes written so far, in order
CursorEscapes == SelectSeq(Flat(stderr), IsCursorEscape)

\* the terminal shows its cursor: no escape has hidden it since the last show
CursorVisible ==
    CursorEscapes # <<>> => CursorEscapes[Len(CursorEscapes)] = SHOW_CURSOR

\* a finalized line, as close() prints it
IsFinalized(w) ==
    /\ Len(w) >= 3
    /\ w[1] = CR
    /\ w[Len(w) - 1] = SHOW_CURSOR
    /\ w[Len(w)] = NL

\* a line as tick() prints it
IsTickLine(w) == Len(w) >= 3 /\ w[1] = HIDE_CURSOR /\ w[2] = CR

NumFinalized == Cardinality({i \in 1..Len(stderr) : IsFinalized(stderr[i])})

LastCall == IF calls = <<>> THEN "init" ELSE calls[Len(calls)]

\* the step is a call of one of the names
StepCalls(names) ==
    /\ Len(calls') = Len(calls) + 1
    /\ calls'[Len(calls')] \in names

CloseNames == {"close", "done", "exit"}

NumCloses == Cardinality({i \in 1..Len(calls) : calls[i] \in CloseNames})

Min(a, b) == IF a <= b THEN a ELSE b

(* C1..C10 *)

\* C1: on an instance constructed on a terminal, once close has been invoked
\* the cursor is visible in every later state: the last cursor escape written
\* is show-cursor, whatever calls follow.
C1_CursorVisibleAfterClose ==
    (Interactive /\ self._closed) => CursorVisible

\* C2: close is idempotent on an interactive instance: the first close call
\* (close, done or scope exit) prints the finalized line, every later one
\* prints nothing and leaves the instance as it is, so exactly one finalized
\* line exists once the instance is closed and none before.
C2_CloseIdempotent ==
    /\ [](Interactive => NumFinalized = IF self._closed THEN 1 ELSE 0)
    /\ [][(StepCalls(CloseNames) /\ Interactive) =>
            IF self._closed
            THEN stderr' = stderr /\ self' = self
            ELSE /\ Len(stderr') = Len(stderr) + 1
                 /\ SubSeq(stderr', 1, Len(stderr)) = stderr
                 /\ IsFinalized(stderr'[Len(stderr')])
                 /\ self'._closed]_vars

C2_Witness ==
    /\ Interactive
    /\ NumCloses >= 3
    /\ NumFinalized = 1
    /\ IsFinalized(stderr[Len(stderr)])

\* C3: tick is a no-op on a closed instance: it prints nothing and leaves
\* ticksCompleted and every other attribute unchanged.
C3_TickNoOpWhenClosed ==
    [][(StepCalls({"tick"}) /\ self._closed) =>
          (stderr' = stderr /\ self' = self)]_vars

\* C4: tick and close never raise on misuse: called on a closed instance or
\* on one constructed while stderr is not a terminal, the call returns.
C4_NoRaiseOnMisuse ==
    [][(StepCalls({"tick", "close"}) /\ (self._closed \/ ~Interactive)) =>
          exc' = "None"]_vars

\* C5: when stderr is not a terminal, construction followed by any tick and
\* close calls prints nothing.
C5_NonInteractiveInert ==
    ~Interactive => stderr = <<>>

C5_Witness ==
    /\ ~Interactive
    /\ NumTicks >= 2
    /\ NumCloses >= 2
    /\ stderr = <<>>

\* C6: after a with-scope on an interactive instance has been left, by normal
\* completion or by an exception, exactly one finalized line has been
\* printed and the instance is closed.
C6_ScopeExitCloses ==
    (Interactive /\ scope.at = "exited") =>
        (self._closed /\ NumFinalized = 1)

C6_Witness ==
    /\ Interactive
    /\ scope.at = "exited"
    /\ scope.body = "BodyError"
    /\ LastCall = "exit"
    /\ NumCloses = 1
    /\ NumFinalized = 1

\* C7: scope exit neither swallows nor replaces a failure: the exception the
\* body raised is the one the caller of the with-statement observes,
\* interactive or not.
C7_ScopeKeepsFailure ==
    (scope.at = "exited" /\ scope.body # "None") => scope.caller = scope.body

\* C8: on an interactive determinate instance 0 <= ticksCompleted <= total in
\* every state, ticksCompleted never decreases, and after k tick calls on the
\* open instance it equals min(k, total).
C8_MonotonicCap ==
    /\ [](Determinate =>
            /\ 0 <= self._tick
            /\ self._tick <= self.count
            /\ (~self._closed => self._tick = Min(NumTicks, self.count)))
    /\ [][Determinate => self'._tick >= self._tick]_vars

C8_Witness ==
    /\ Determinate
    /\ ~self._closed
    /\ self.count = 3
    /\ NumTicks = 6
    /\ self._tick = 3

\* s is t with whitespace, and only whitespace, removed from both ends
IsTrimOf(s, t) ==
    /\ s = <<>> \/ (s[1] \notin Whitespace /\ s[Len(s)] \notin Whitespace)
    /\ \E l \in 0..Len(t) :
          /\ l + Len(s) <= Len(t)
          /\ SubSeq(t, l + 1, l + Len(s)) = s
          /\ \A i \in (1..l) \cup ((l + Len(s) + 1)..Len(t)) : t[i] \in Whitespace

\* the text of a printed line from position from on starts with s
HasAt(w, from, s) ==
    Len(w) >= from + Len(s) - 1 /\ SubSeq(w, from, from + Len(s) - 1) = s

\* C9: displayMessage is the trimmed message when that has at most 39
\* characters, otherwise its first 36 characters and a 3-character ellipsis;
\* determinate tick lines show displayMessage, the finalized line shows the
\* whole trimmed message.
C9_MessageTruncation ==
    Interactive =>
        /\ IsTrimOf(self.orig_msg, args.msg)
        /\ Len(self.orig_msg) <= 39 => self.msg = self.orig_msg
        /\ Len(self.orig_msg) > 39 =>
              /\ Len(self.msg) = 39
              /\ \A i \in 1..36 : self.msg[i] = self.orig_msg[i]
              /\ \A i \in 37..39 : self.msg[i] = "."
        /\ \A i \in 1..Len(stderr) :
              /\ (IsTickLine(stderr[i]) /\ Truthy(self.count)) =>
                    HasAt(stderr[i], 8, self.msg \o <<" ", "|">>)
              /\ IsFinalized(stderr[i]) =>
                    \/ HasAt(stderr[i], 7, self.orig_msg \o <<SHOW_CURSOR>>)
                    \/ HasAt(stderr[i], 7, self.orig_msg \o <<" ", "[">>)

C9_Witness ==
    /\ Determinate
    /\ Len(args.msg) = 53
    /\ Len(self.orig_msg) = 50
    /\ Len(self.msg) = 39
    /\ NumTicks >= 1
    /\ NumFinalized = 1

\* the bar a tick line shows between its two '|' delimiters
BarRegion(w) ==
    LET from == 8 + Len(self.msg) + 2
        to == CHOOSE j \in from..Len(w) :
                  w[j] = "|" /\ \A k \in from..(j - 1) : w[k] # "|"
    IN  SubSeq(w, from, to - 1)

\* C10: a determinate tick with 1 <= ticksCompleted <= total shows
\* floor(barWidth*ticksCompleted/total) full blocks, then the ramp glyph at
\* phaseIndex = floor(9*barWidth*ticksCompleted/total) - 9*filledLength when
\* that is above 0 and no glyph when it is 0; phaseIndex is within 0..8.
C10_BarResolution ==
    (Determinate /\ LastCall = "tick") =>
        LET barWidth == self._width
            ticksCompleted == self._tick
            total == self.count
            filledLength == (barWidth * ticksCompleted) \div total
            phaseIndex == (9 * barWidth * ticksCompleted) \div total
                              - 9 * filledLength
            bar == BarRegion(stderr[Len(stderr)])
        IN  /\ 1 <= ticksCompleted /\ ticksCompleted <= total
            /\ phaseIndex \in 0..8
            /\ Len(bar) >= filledLength
            /\ \A i \in 1..filledLength : bar[i] = "u2588"
            /\ phaseIndex > 0 =>
                  /\ Len(bar) > filledLength
                  /\ bar[filledLength + 1] = _phases[phaseIndex + 1]
            /\ \A i \in (filledLength + (IF phaseIndex > 0 THEN 2 ELSE 1))..Len(bar) :
                  bar[i] = " "

C10_Witness ==
    /\ Determinate
    /\ LastCall = "tick"
    /\ self._width = 10
    /\ self.count = 80
    /\ self._tick = 33
    /\ BarRegion(stderr[Len(stderr)]) =
          <<"u2588", "u2588", "u2588", "u2588", "u258f", " ", " ", " ", " ", " ">>

(* C11..C20 *)

\* C11: without a total (absent or 0) every tick line of an interactive
\* instance is the elapsed-time field and the whole untruncated message, with
\* no bar delimiter, bar glyph or counter, and ticksCompleted stays 0.
C11_IndeterminateOmitsBar ==
    (Interactive /\ ~Truthy(self.count)) =>
        /\ self._tick = 0
        /\ \A i \in 1..Len(stderr) :
              IsTickLine(stderr[i]) =>
                  stderr[i] = <<HIDE_CURSOR, CR, CLEAR_EOL, "[", ELAPSED, "]", " ">>
                                  \o self.orig_msg

C11_Witness ==
    /\ Interactive
    /\ self.count = 0
    /\ Len(self.orig_msg) = 50
    /\ NumTicks >= 2
    /\ IsTickLine(stderr[Len(stderr)])

\* the last Len(s) elements of w are s
EndsWith(w, s) ==
    Len(w) >= Len(s) /\ SubSeq(w, Len(w) - Len(s) + 1, Len(w)) = s

\* C15: a determinate tick line ends with the counter [ticksCompleted/total]
\* while ticksCompleted < total and with [ticksCompleted], the /total part
\* left out, once ticksCompleted equals total.
C15_TickCounterOmitsTotal ==
    (Determinate /\ LastCall = "tick") =>
        LET w == stderr[Len(stderr)]
            t == self._tick
        IN  IF t < self.count
            THEN EndsWith(w, <<"|", " ", "[">> \o Str(t) \o <<"/">>
                                 \o Str(self.count) \o <<"]">>)
            ELSE EndsWith(w, <<"|", " ", "[">> \o Str(t) \o <<"]">>)

\* the tick() calls made before the first close(), done() or __exit__
TicksBeforeClose ==
    Cardinality({i \in 1..Len(calls) :
                    /\ calls[i] = "tick"
                    /\ \A j \in 1..i : calls[j] \notin CloseNames})

\* the finalized line w carries something between the message and show-cursor
HasCounter(w) ==
    w # <<CR, CLEAR_EOL, "[", ELAPSED, "]", " ">> \o self.orig_msg
            \o <<SHOW_CURSOR, NL>>

\* C16: the finalized line carries a counter exactly when a total was set and
\* at least one tick occurred before close; a determinate instance closed
\* without a tick gets the elapsed time and the message only.
C16_CloseCounterNeedsTick ==
    Interactive =>
        \A i \in 1..Len(stderr) :
            IsFinalized(stderr[i]) =>
                (HasCounter(stderr[i]) <=>
                    (Truthy(self.count) /\ TicksBeforeClose >= 1))

\* C17: an instance constructed while stderr is not a terminal is closed from
\* the end of construction on.
C17_NonInteractiveClosed ==
    ~Interactive => self._closed

\* C20: barWidth of an interactive instance is within 2..41, and the region
\* between the two '|' of a determinate tick line is exactly barWidth
\* characters long, for every ticksCompleted from 1 to total.
C20_BarWidthExact ==
    Interactive =>
        /\ 2 <= self._width
        /\ self._width <= 41
        /\ (Determinate /\ LastCall = "tick") =>
              Len(BarRegion(stderr[Len(stderr)])) = self._width

C20_Witness ==
    /\ Determinate
    /\ LastCall = "tick"
    /\ self._width = 2
    /\ self.count = 9
    /\ self._tick = 4
    /\ BarRegion(stderr[Len(stderr)]) = <<"u2588", " ">>

\* C18: destroying an instance prints the show-cursor escape, and nothing
\* else, exactly when close was never invoked on it and stderr is a terminal
\* at that moment; destroying a closed instance prints nothing.
C18_DestructionSafetyNet ==
    [][StepCalls({"del"}) =>
          stderr' = IF NumCloses = 0 /\ isatty
                    THEN Append(stderr, <<SHOW_CURSOR, NL>>)
                    ELSE stderr]_vars

C18_Witness ==
    /\ Interactive
    /\ LastCall = "del"
    /\ NumCloses = 0
    /\ NumTicks >= 1
    /\ isatty
    /\ stderr[Len(stderr)] = <<SHOW_CURSOR, NL>>

Raisers == {i \in 1..Len(iterable) : iterable[i]}

\* C12: force_run calls every function of a non-empty list exactly once, from
\* left to right, whether or not earlier ones raise, and an exception reaches
\* the caller only after all the functions have run.
C12_ForceRunRunsAll ==
    /\ Len(ran) <= Len(iterable)
    /\ \A i \in 1..Len(ran) : ran[i] = i
    /\ (outcome.pc = "done" /\ iterable # <<>>) =>
          /\ Len(ran) = Len(iterable)
          /\ outcome.exc # NoException <=> Raisers # {}

C12_Witness ==
    /\ outcome.pc = "done"
    /\ Len(iterable) = 4
    /\ Raisers = {2}
    /\ ran = <<1, 2, 3, 4>>
    /\ outcome.exc = 2

\* C13: when several functions given to force_run raise, the exception that
\* reaches the caller is that of the leftmost function that raised.
C13_FirstFailurePropagates ==
    (outcome.pc = "done" /\ Raisers # {}) =>
        \A i \in Raisers : outcome.exc <= i

\* flatten_dict was called without field_set and has ended
FlattenedByDefault ==
    /\ flat.result.kind # "pending"
    /\ flat.field_set = <<>>

HasExtraKey == \E k \in DOMAIN flat.dct : \A i \in 1..Len(flat.fields) : flat.fields[i] # k

HasMissingField == \E i \in 1..Len(flat.fields) : flat.fields[i] \notin DOMAIN flat.dct

\* the result is the list of values in field order, rest_val where dct has none
ListInFieldOrder ==
    /\ flat.result.kind = "list"
    /\ Len(flat.result.list) = Len(flat.fields)
    /\ \A i \in 1..Len(flat.fields) :
          flat.result.list[i] = IF flat.fields[i] \in DOMAIN flat.dct
                                THEN flat.dct[flat.fields[i]]
                                ELSE flat.rest_val

\* C14 as claimed: ValueError exactly when extras_action is 'raise' and dct
\* has a key outside fields; a field missing from dct raises KeyError unless
\* rest_val is given, and then rest_val fills its position; otherwise the
\* values are returned in field order.
C14_FlattenDictAsClaimed ==
    FlattenedByDefault =>
        /\ flat.result.kind = "ValueError" <=>
              (flat.extras_action = "raise" /\ HasExtraKey)
        /\ (HasMissingField /\ flat.rest_val = None) =>
              flat.result.kind = "KeyError"
        /\ (HasMissingField /\ flat.rest_val # None) => ListInFieldOrder
        /\ flat.result.kind = "list" => ListInFieldOrder

\* C14, amended: the ValueError for extra keys comes first; when it is not
\* raised, a field missing from dct raises KeyError unless rest_val is given,
\* and then rest_val fills its position, and the values are returned in field
\* order.
C14_FlattenDict ==
    FlattenedByDefault =>
        /\ flat.result.kind = "ValueError" <=>
              (flat.extras_action = "raise" /\ HasExtraKey)
        /\ flat.result.kind # "ValueError" =>
              /\ (HasMissingField /\ flat.rest_val = None) <=>
                    flat.result.kind = "KeyError"
              /\ flat.result.kind # "KeyError" => ListInFieldOrder

C14_Witness ==
    /\ FlattenedByDefault
    /\ flat.extras_action = "raise"
    /\ HasExtraKey
    /\ HasMissingField
    /\ flat.rest_val = 0
    /\ flat.result.kind = "ValueError"

====
